---- MODULE Spec2Model ----
(***************************************************************************)
(* Model of DS1216Clock.ino: a bit-banged driver for the DS1216 SmartWatch *)
(* real-time clock.  One step of the model is one statement of the sketch  *)
(* (one digitalWrite / pinMode / digitalRead, one call, one assignment);   *)
(* the call stack of the sketch is the variable `stack`.                   *)
(***************************************************************************)
EXTENDS Integers, Sequences, FiniteSets, TLC

VARIABLES
    stack,        \* call stack: frames [fn, pc, arg, b]; the top is the last
    pinDir,       \* direction of each Arduino pin: INPUT or OUTPUT
    pinLevel,     \* output latch of each Arduino pin: LOW or HIGH
    dqChip,       \* level the chip drives on DQ0 while /OE is low, else HiZ
    chip,         \* the DS1216: [match, xfer, image]
    retval,       \* value returned by the function that returned last
    dsRegisters,  \* byte dsRegisters[8] of dsReadAndPrintTime
    reg,          \* byte reg[8] of dsWriteRegisters
    serialOut,    \* Serial.print calls of the current line, in order
    busLog,       \* transport operations since the wake sequence began
    opLog,        \* pin operations of the current transport operation
    cal           \* CalendarTime recovered from a register image (codec)

vars == <<stack, pinDir, pinLevel, dqChip, chip, retval, dsRegisters, reg,
          serialOut, busLog, opLog, cal>>

----------------------------------------------------------------------------
(* Pin numbers, register indices and control bits of the sketch.           *)

dsDQ0pin == 4
ds_WEpin == 5
ds_OEpin == 6
ds_CEpin == 7

dsSubSecondRegister == 0
dsSecondsRegister == 1
dsMinutesRegister == 2
dsHourRegister == 3
dsDayRegister == 4
dsDateRegister == 5
dsMonthRegister == 6
dsYearRegister == 7

(* Control bits: oscillator stop in the day register, 12/24 mode in the   *)
(* hour register.                                                          *)
ds_OSCbit == 32
ds1224bit == 128

LOW == 0
HIGH == 1
INPUT == 0
OUTPUT == 1

(* DQ0 is not driven by the chip.                                          *)
HiZ == 2

Pins == {dsDQ0pin, ds_WEpin, ds_OEpin, ds_CEpin}

Byte == 0..255

(* C arithmetic on bytes.                                                  *)
ToByte(x) == x % 256

Bit(n, k) == (n \div (2 ^ k)) % 2

RECURSIVE BitAndN(_, _, _)
BitAndN(a, b, w) ==
    IF w = 0 THEN 0
    ELSE ((a % 2) * (b % 2)) + (2 * BitAndN(a \div 2, b \div 2, w - 1))

BitAnd(a, b) == BitAndN(a, b, 8)

RECURSIVE BitOrN(_, _, _)
BitOrN(a, b, w) ==
    IF w = 0 THEN 0
    ELSE (IF (a % 2) = 1 \/ (b % 2) = 1 THEN 1 ELSE 0)
         + (2 * BitOrN(a \div 2, b \div 2, w - 1))

BitOr(a, b) == BitOrN(a, b, 8)

(* Conversion of an int to bool, as at the call dsWriteBit( n & 0x02 ).     *)
ToBool(x) == IF x # 0 THEN 1 ELSE 0

----------------------------------------------------------------------------
(* BCD conversion functions.                                               *)

(* An encode whose result is not cut to 8 bits.                            *)
decimal2BCD_wide(dec) == ((dec \div 10) * 16) + (dec % 10)

(* An encode that keeps the binary value.                                  *)
decimal2BCD_plain(dec) == ToByte(((dec \div 10) * 10) + (dec % 10))

decimal2BCD(dec) == ToByte(((dec \div 10) * 16) + (dec % 10))

(* A decode that weighs the high nibble by 16.                             *)
BCD2Decimal_hex(bcd) == ToByte(((bcd \div 16) * 16) + (bcd % 16))

BCD2Decimal(bcd) == ToByte(((bcd \div 16) * 10) + (bcd % 16))

(* A digit pair in hexadecimal: 'A'..'F' for the nibbles 10..15.           *)
BCD2ASCII_hexdigit(bcd) ==
    <<IF (bcd \div 16) < 10 THEN (bcd \div 16) + 48 ELSE (bcd \div 16) + 55,
      IF (bcd % 16) < 10 THEN (bcd % 16) + 48 ELSE (bcd % 16) + 55>>

(* A digit pair taken from the decimal digits of the byte.                 *)
BCD2ASCII_decimal(bcd) == <<(bcd \div 10) + 48, (bcd % 10) + 48>>

(* str[0], str[1] of BCD2ASCII, as character codes ('0' is 48).            *)
BCD2ASCII(bcd) == <<(bcd \div 16) + 48, (bcd % 16) + 48>>

(* Level dsChipEnable writes to /CE.                                       *)
dsChipEnable(enableChip) == IF enableChip # 0 THEN LOW ELSE HIGH

----------------------------------------------------------------------------
(* The call stack.                                                         *)

Frame(fn, arg) == [fn |-> fn, pc |-> 0, arg |-> arg, b |-> 0]

Top == stack[Len(stack)]

At(fn, pc) == stack # <<>> /\ Top.fn = fn /\ Top.pc = pc

In(fn) == stack # <<>> /\ Top.fn = fn

Goto(pc) == [stack EXCEPT ![Len(stack)].pc = pc]

Call(fn, arg) == Append(Goto(Top.pc + 1), Frame(fn, arg))

Return == SubSeq(stack, 1, Len(stack) - 1)

(* The frame that called the top frame.                                    *)
Caller == stack[Len(stack) - 1]

----------------------------------------------------------------------------
(* Arduino pin primitives.                                                 *)

PinMode(pin, mode) == [pinDir EXCEPT ![pin] = mode]

DigitalWrite(pin, val) ==
    [pinLevel EXCEPT ![pin] = IF val = LOW THEN LOW ELSE HIGH]

(* Values digitalRead( dsDQ0pin ) can return: the level the chip drives,   *)
(* the host's own level, or either level when the line floats.             *)
DigitalRead ==
    IF dqChip # HiZ THEN {dqChip}
    ELSE IF pinDir[dsDQ0pin] = OUTPUT THEN {pinLevel[dsDQ0pin]}
    ELSE {LOW, HIGH}

PinOp(op, v) == [op |-> op, v |-> v]

BusOp(op, val) == [op |-> op, val |-> val]

(* Serial.print: serialOut keeps the print calls of the current line; a    *)
(* print after the line's end starts the next line.  The log out is bound  *)
(* to o so that a chain of prints evaluates it once.                       *)
CRLF == <<13, 10>>

SerialPrint(out, s) ==
    LET Printed(o) ==
            IF o # <<>> /\ o[Len(o)] = CRLF THEN <<s>> ELSE Append(o, s)
    IN  CHOOSE line \in {Printed(o) : o \in {out}} : TRUE

SerialPrintln(out, s) == Append(SerialPrint(out, s), CRLF)

----------------------------------------------------------------------------
(* The DS1216: a pattern matcher that a read resets, that unlocks the      *)
(* clock registers after 64 written bits equal to the wake code, and that  *)
(* locks again after the next 64 bit transfers.                            *)

WakeCode == <<197, 58, 163, 92, 197, 58, 163, 92>>

WakeBit(i) == Bit(WakeCode[(i \div 8) + 1], i % 8)

NoRegs == [i \in 1..8 |-> 0]

ChipLocked == [match |-> 0, xfer |-> 0, image |-> NoRegs]

(* Register images the clock may hold when it is unlocked.                 *)
ScenarioImage == <<0, 39, 49, 21, 7, 25, 2, 32>>

ChipImages ==
    {[ScenarioImage EXCEPT ![5] = d] : d \in 0..15}
    \cup {[ScenarioImage EXCEPT ![5] = 7 + 32], [ScenarioImage EXCEPT ![5] = 3 + 16],
          [i \in 1..8 |-> 255], [i \in 1..8 |-> 0],
          <<153, 89, 89, 35, 1, 49, 18, 153>>,
          <<10, 90, 171, 164, 5, 63, 19, 250>>}

ChipWrite(c, bit, img) ==
    IF c.match = 64
    THEN IF c.xfer = 63 THEN ChipLocked ELSE [c EXCEPT !.xfer = @ + 1]
    ELSE IF c.match >= 0 /\ bit = WakeBit(c.match)
         THEN IF c.match = 63
              THEN [match |-> 64, xfer |-> 0, image |-> img]
              ELSE [c EXCEPT !.match = @ + 1]
         ELSE [c EXCEPT !.match = -1]

ChipRead(c) ==
    IF c.match = 64
    THEN IF c.xfer = 63 THEN ChipLocked ELSE [c EXCEPT !.xfer = @ + 1]
    ELSE ChipLocked

(* Levels the chip may put on DQ0 for a read.                              *)
ChipData(c) ==
    IF c.match = 64
    THEN {Bit(c.image[(c.xfer \div 8) + 1], c.xfer % 8)}
    ELSE {LOW, HIGH}

----------------------------------------------------------------------------
(* Initial state: the microcontroller after reset, about to enter setup(). *)

PinsAtReset == [p \in Pins |-> INPUT]

LatchAtReset == [p \in Pins |-> LOW]

NoCal == [year |-> 0, month |-> 0, date |-> 0, dow |-> 0, hour |-> 0,
          minute |-> 0, second |-> 0, subsecond |-> 0]

Init ==
    /\ stack = <<Frame("setup", 0)>>
    /\ pinDir = PinsAtReset
    /\ pinLevel = LatchAtReset
    /\ dqChip = HiZ
    /\ chip = ChipLocked
    /\ retval = 0
    /\ dsRegisters = NoRegs
    /\ reg = NoRegs
    /\ serialOut = <<>>
    /\ busLog = <<>>
    /\ opLog = <<>>
    /\ cal = NoCal

----------------------------------------------------------------------------
(* setup()                                                                 *)

SetupPins == <<ds_CEpin, ds_OEpin, ds_WEpin>>

StartingMsg == <<83, 116, 97, 114, 116, 105, 110, 103, 32,
                 68, 83, 49, 50, 49, 54, 46>>

(* Date/time arguments of the call dsWriteRegisters( SET_YEAR, ... ).      *)
SetTime(y, mo, d, w, h, mi, s) ==
    [year |-> y, month |-> mo, date |-> d, dow |-> w, hour |-> h,
     minute |-> mi, second |-> s, subsecond |-> 0]

SetTimes ==
    {SetTime(2019, 2, 3, 7, 21, 27, 0), SetTime(25, 12, 31, 3, 9, 5, 0),
     SetTime(2019, 1, 19, 5, 20, 21, 20), SetTime(99, 1, 1, 1, 23, 59, 59)}

setup_pinMode ==
    /\ In("setup") /\ Top.pc \in 0..2
    /\ pinDir' = PinMode(SetupPins[Top.pc + 1], OUTPUT)
    /\ stack' = Goto(Top.pc + 1)
    /\ UNCHANGED <<pinLevel, dqChip, chip, retval, dsRegisters, reg,
                   serialOut, busLog, opLog, cal>>

setup_digitalWrite ==
    /\ In("setup") /\ Top.pc \in 3..5
    /\ pinLevel' = DigitalWrite(SetupPins[Top.pc - 2], HIGH)
    /\ stack' = Goto(Top.pc + 1)
    /\ UNCHANGED <<pinDir, dqChip, chip, retval, dsRegisters, reg,
                   serialOut, busLog, opLog, cal>>

setup_dq ==
    /\ At("setup", 6)
    /\ pinDir' = PinMode(dsDQ0pin, OUTPUT)
    /\ stack' = Goto(7)
    /\ UNCHANGED <<pinLevel, dqChip, chip, retval, dsRegisters, reg,
                   serialOut, busLog, opLog, cal>>

setup_serial ==
    /\ At("setup", 7)
    /\ serialOut' = SerialPrintln(serialOut, StartingMsg)
    /\ stack' = Goto(8)
    /\ UNCHANGED <<pinDir, pinLevel, dqChip, chip, retval, dsRegisters, reg,
                   busLog, opLog, cal>>

(* A write cycle that omits the call of dsSendCodes.                       *)
setup_SETDATETIME_nowake ==
    /\ At("setup", 8)
    /\ \/ stack' = Goto(9)
       \/ stack' = Goto(10)
    /\ UNCHANGED <<pinDir, pinLevel, dqChip, chip, retval, dsRegisters, reg,
                   serialOut, busLog, opLog, cal>>

(* #if SETDATETIME: the build either sets the clock or skips to the end.   *)
setup_SETDATETIME ==
    /\ At("setup", 8)
    /\ \/ stack' = Call("dsSendCodes", 0)
       \/ stack' = Goto(10)
    /\ UNCHANGED <<pinDir, pinLevel, dqChip, chip, retval, dsRegisters, reg,
                   serialOut, busLog, opLog, cal>>

setup_dsWriteRegisters ==
    /\ At("setup", 9)
    /\ \E t \in SetTimes : stack' = Call("dsWriteRegisters", t)
    /\ UNCHANGED <<pinDir, pinLevel, dqChip, chip, retval, dsRegisters, reg,
                   serialOut, busLog, opLog, cal>>

(* setup() returns and the Arduino core starts calling loop().             *)
setup_return ==
    /\ At("setup", 10)
    /\ stack' = <<Frame("loop", 0)>>
    /\ UNCHANGED <<pinDir, pinLevel, dqChip, chip, retval, dsRegisters, reg,
                   serialOut, busLog, opLog, cal>>

----------------------------------------------------------------------------
(* dsWriteBit( bool bitLevel ): arg is bitLevel.                           *)

dsWriteBit_data ==
    /\ At("dsWriteBit", 0)
    /\ pinLevel' = DigitalWrite(dsDQ0pin, Top.arg)
    /\ opLog' = Append(opLog, PinOp("DQ", pinLevel'[dsDQ0pin]))
    /\ stack' = Goto(1)
    /\ UNCHANGED <<pinDir, dqChip, chip, retval, dsRegisters, reg,
                   serialOut, busLog, cal>>

(* The falling edge of /WE commits the bit on DQ0 to the chip.             *)
dsWriteBit_WE_low ==
    /\ At("dsWriteBit", 1)
    /\ pinLevel' = DigitalWrite(ds_WEpin, LOW)
    /\ opLog' = Append(opLog, PinOp("WE", LOW))
    /\ IF pinLevel[ds_CEpin] = LOW
       THEN \E img \in ChipImages :
                chip' = ChipWrite(chip, pinLevel[dsDQ0pin], img)
       ELSE chip' = chip
    /\ stack' = Goto(2)
    /\ UNCHANGED <<pinDir, dqChip, retval, dsRegisters, reg,
                   serialOut, busLog, cal>>

(* A write bit that releases the chip enable with the write enable.        *)
dsWriteBit_WE_high_CE_high ==
    /\ At("dsWriteBit", 2)
    /\ pinLevel' = [DigitalWrite(ds_WEpin, HIGH) EXCEPT ![ds_CEpin] = HIGH]
    /\ opLog' = Append(opLog, PinOp("WE", HIGH))
    /\ stack' = Return
    /\ UNCHANGED <<pinDir, dqChip, chip, retval, dsRegisters, reg,
                   serialOut, busLog, cal>>

dsWriteBit_WE_high ==
    /\ At("dsWriteBit", 2)
    /\ pinLevel' = DigitalWrite(ds_WEpin, HIGH)
    /\ opLog' = Append(opLog, PinOp("WE", HIGH))
    /\ stack' = Return
    /\ UNCHANGED <<pinDir, dqChip, chip, retval, dsRegisters, reg,
                   serialOut, busLog, cal>>

----------------------------------------------------------------------------
(* dsSendByte( byte n ): arg is n.                                         *)

dsSendByte_enable ==
    /\ At("dsSendByte", 0)
    /\ pinLevel' = DigitalWrite(ds_CEpin, dsChipEnable(1))
    /\ opLog' = <<PinOp("CE", dsChipEnable(1))>>
    /\ stack' = Goto(1)
    /\ UNCHANGED <<pinDir, dqChip, chip, retval, dsRegisters, reg,
                   serialOut, busLog, cal>>

(* A send that leaves the direction of DQ0 as it finds it.                 *)
dsSendByte_pinMode_skipped ==
    /\ At("dsSendByte", 1)
    /\ stack' = Goto(2)
    /\ UNCHANGED <<pinDir, pinLevel, dqChip, chip, retval, dsRegisters, reg,
                   serialOut, busLog, opLog, cal>>

dsSendByte_pinMode ==
    /\ At("dsSendByte", 1)
    /\ pinDir' = PinMode(dsDQ0pin, OUTPUT)
    /\ opLog' = Append(opLog, PinOp("DIR", OUTPUT))
    /\ stack' = Goto(2)
    /\ UNCHANGED <<pinLevel, dqChip, chip, retval, dsRegisters, reg,
                   serialOut, busLog, cal>>

(* Masks taken most significant bit first.                                 *)
SendMask_msb(k) == 2 ^ (7 - k)

(* Bit mask of the k-th dsWriteBit call: 0x01, 0x02, ... 0x80.             *)
SendMask(k) == 2 ^ k

(* Argument of the k-th call dsWriteBit( n & mask ), converted to bool.    *)
SendBitArg(n, k) == ToBool(BitAnd(n, SendMask(k)))

dsSendByte_bit ==
    /\ In("dsSendByte") /\ Top.pc \in 2..9
    /\ stack' = Call("dsWriteBit", SendBitArg(Top.arg, Top.pc - 2))
    /\ UNCHANGED <<pinDir, pinLevel, dqChip, chip, retval, dsRegisters, reg,
                   serialOut, busLog, opLog, cal>>

dsSendByte_disable ==
    /\ At("dsSendByte", 10)
    /\ pinLevel' = DigitalWrite(ds_CEpin, dsChipEnable(0))
    /\ opLog' = Append(opLog, PinOp("CE", dsChipEnable(0)))
    /\ busLog' = Append(busLog, BusOp("send", Top.arg))
    /\ stack' = Return
    /\ UNCHANGED <<pinDir, dqChip, chip, retval, dsRegisters, reg,
                   serialOut, cal>>

----------------------------------------------------------------------------
(* dsReadBit(): b is the local b.                                          *)

(* /OE low: an enabled chip puts its next bit on DQ0.                      *)
dsReadBit_OE_low ==
    /\ At("dsReadBit", 0)
    /\ pinLevel' = DigitalWrite(ds_OEpin, LOW)
    /\ opLog' = Append(opLog, PinOp("OE", LOW))
    /\ IF pinLevel[ds_CEpin] = LOW
       THEN /\ dqChip' \in ChipData(chip)
            /\ chip' = ChipRead(chip)
       ELSE UNCHANGED <<dqChip, chip>>
    /\ stack' = Goto(1)
    /\ UNCHANGED <<pinDir, retval, dsRegisters, reg, serialOut, busLog, cal>>

dsReadBit_sample ==
    /\ At("dsReadBit", 1)
    /\ \E v \in DigitalRead :
          /\ stack' = [Goto(2) EXCEPT ![Len(stack)].b = v]
          /\ opLog' = Append(opLog, PinOp("READ", v))
    /\ UNCHANGED <<pinDir, pinLevel, dqChip, chip, retval, dsRegisters, reg,
                   serialOut, busLog, cal>>

(* A read that does not raise /OE again.                                   *)
dsReadBit_OE_left_low ==
    /\ At("dsReadBit", 2)
    /\ stack' = Goto(3)
    /\ UNCHANGED <<pinDir, pinLevel, dqChip, chip, retval, dsRegisters, reg,
                   serialOut, busLog, opLog, cal>>

dsReadBit_OE_high ==
    /\ At("dsReadBit", 2)
    /\ pinLevel' = DigitalWrite(ds_OEpin, HIGH)
    /\ opLog' = Append(opLog, PinOp("OE", HIGH))
    /\ dqChip' = HiZ
    /\ stack' = Goto(3)
    /\ UNCHANGED <<pinDir, chip, retval, dsRegisters, reg, serialOut,
                   busLog, cal>>

dsReadBit_return ==
    /\ At("dsReadBit", 3)
    /\ retval' = Top.b
    /\ stack' = Return
    /\ UNCHANGED <<pinDir, pinLevel, dqChip, chip, dsRegisters, reg,
                   serialOut, busLog, opLog, cal>>

----------------------------------------------------------------------------
(* dsReadByte(): b is the local b.  Statement 2+2k calls dsReadBit for bit *)
(* k and statement 3+2k stores the returned bit.                           *)

dsReadByte_pinMode ==
    /\ At("dsReadByte", 0)
    /\ pinDir' = PinMode(dsDQ0pin, INPUT)
    /\ opLog' = <<PinOp("DIR", INPUT)>>
    /\ stack' = Goto(1)
    /\ UNCHANGED <<pinLevel, dqChip, chip, retval, dsRegisters, reg,
                   serialOut, busLog, cal>>

dsReadByte_enable ==
    /\ At("dsReadByte", 1)
    /\ pinLevel' = DigitalWrite(ds_CEpin, dsChipEnable(1))
    /\ opLog' = Append(opLog, PinOp("CE", dsChipEnable(1)))
    /\ stack' = Goto(2)
    /\ UNCHANGED <<pinDir, dqChip, chip, retval, dsRegisters, reg,
                   serialOut, busLog, cal>>

dsReadByte_call ==
    /\ In("dsReadByte") /\ Top.pc \in {2, 4, 6, 8, 10, 12, 14, 16}
    /\ stack' = Call("dsReadBit", 0)
    /\ UNCHANGED <<pinDir, pinLevel, dqChip, chip, retval, dsRegisters, reg,
                   serialOut, busLog, opLog, cal>>

(* Shift counts taken most significant bit first.                          *)
ReadShift_msb(k) == 7 - k

(* Shift count of the k-th read: b = r; b |= r << 1; ... b |= r << 7.      *)
ReadShift(k) == k

(* b after the k-th statement, from b before it and the bit r returned.    *)
ReadAssemble(b, r, k) ==
    IF k = 0 THEN ToByte(r) ELSE ToByte(BitOr(b, ToByte(r * (2 ^ ReadShift(k)))))

dsReadByte_store ==
    /\ In("dsReadByte") /\ Top.pc \in {3, 5, 7, 9, 11, 13, 15, 17}
    /\ stack' = [Goto(Top.pc + 1) EXCEPT ![Len(stack)].b =
                     ReadAssemble(Top.b, retval, (Top.pc - 3) \div 2)]
    /\ retval' = 0
    /\ UNCHANGED <<pinDir, pinLevel, dqChip, chip, dsRegisters, reg,
                   serialOut, busLog, opLog, cal>>

dsReadByte_disable ==
    /\ At("dsReadByte", 18)
    /\ pinLevel' = DigitalWrite(ds_CEpin, dsChipEnable(0))
    /\ opLog' = Append(opLog, PinOp("CE", dsChipEnable(0)))
    /\ stack' = Goto(19)
    /\ UNCHANGED <<pinDir, dqChip, chip, retval, dsRegisters, reg,
                   serialOut, busLog, cal>>

dsReadByte_return ==
    /\ At("dsReadByte", 19)
    /\ retval' = Top.b
    /\ busLog' = Append(busLog, BusOp("recv", Top.b))
    /\ stack' = Return
    /\ UNCHANGED <<pinDir, pinLevel, dqChip, chip, dsRegisters, reg,
                   serialOut, opLog, cal>>

----------------------------------------------------------------------------
(* dsReadRegisters( dsRegister ): statement 2i calls dsReadByte and        *)
(* statement 2i+1 stores the byte in dsRegister[i].                        *)

dsReadRegisters_call ==
    /\ In("dsReadRegisters") /\ Top.pc \in {0, 2, 4, 6, 8, 10, 12, 14}
    /\ stack' = Call("dsReadByte", 0)
    /\ UNCHANGED <<pinDir, pinLevel, dqChip, chip, retval, dsRegisters, reg,
                   serialOut, busLog, opLog, cal>>

(* A read that fills the array from its far end.                           *)
ReadIndex_descending(i) == 7 - i

(* Index of the register the i-th statement fills.                         *)
ReadIndex(i) == i

(* A read of the registers that stops after seven bytes.                   *)
dsReadRegisters_store_seven ==
    /\ In("dsReadRegisters") /\ Top.pc \in {1, 3, 5, 7, 9, 11, 13, 15}
    /\ dsRegisters' = [dsRegisters EXCEPT
                          ![ReadIndex((Top.pc - 1) \div 2) + 1] = retval]
    /\ retval' = 0
    /\ stack' = IF Top.pc = 13 THEN Return ELSE Goto(Top.pc + 1)
    /\ UNCHANGED <<pinDir, pinLevel, dqChip, chip, reg, serialOut, busLog,
                   opLog, cal>>

dsReadRegisters_store ==
    /\ In("dsReadRegisters") /\ Top.pc \in {1, 3, 5, 7, 9, 11, 13, 15}
    /\ dsRegisters' = [dsRegisters EXCEPT
                          ![ReadIndex((Top.pc - 1) \div 2) + 1] = retval]
    /\ retval' = 0
    /\ stack' = IF Top.pc = 15 THEN Return ELSE Goto(Top.pc + 1)
    /\ UNCHANGED <<pinDir, pinLevel, dqChip, chip, reg, serialOut, busLog,
                   opLog, cal>>

----------------------------------------------------------------------------
(* dsSendCodes(): b is the local temp.                                     *)

dsSendCodes_enable ==
    /\ At("dsSendCodes", 0)
    /\ pinLevel' = DigitalWrite(ds_CEpin, dsChipEnable(1))
    /\ opLog' = <<PinOp("CE", dsChipEnable(1))>>
    /\ busLog' = <<>>
    /\ stack' = Goto(1)
    /\ UNCHANGED <<pinDir, dqChip, chip, retval, dsRegisters, reg,
                   serialOut, cal>>

(* A wake sequence that reads without making DQ0 an input.                 *)
dsSendCodes_pinMode_skipped ==
    /\ At("dsSendCodes", 1)
    /\ stack' = Goto(2)
    /\ UNCHANGED <<pinDir, pinLevel, dqChip, chip, retval, dsRegisters, reg,
                   serialOut, busLog, opLog, cal>>

dsSendCodes_pinMode ==
    /\ At("dsSendCodes", 1)
    /\ pinDir' = PinMode(dsDQ0pin, INPUT)
    /\ opLog' = Append(opLog, PinOp("DIR", INPUT))
    /\ stack' = Goto(2)
    /\ UNCHANGED <<pinLevel, dqChip, chip, retval, dsRegisters, reg,
                   serialOut, busLog, cal>>

dsSendCodes_read ==
    /\ At("dsSendCodes", 2)
    /\ stack' = Call("dsReadBit", 0)
    /\ UNCHANGED <<pinDir, pinLevel, dqChip, chip, retval, dsRegisters, reg,
                   serialOut, busLog, opLog, cal>>

(* temp = dsReadBit(): the value is never used.                            *)
dsSendCodes_temp ==
    /\ At("dsSendCodes", 3)
    /\ stack' = [Goto(4) EXCEPT ![Len(stack)].b = retval]
    /\ retval' = 0
    /\ busLog' = Append(busLog, BusOp("readbit", 0))
    /\ UNCHANGED <<pinDir, pinLevel, dqChip, chip, dsRegisters, reg,
                   serialOut, opLog, cal>>

dsSendCodes_disable ==
    /\ At("dsSendCodes", 4)
    /\ pinLevel' = DigitalWrite(ds_CEpin, dsChipEnable(0))
    /\ opLog' = Append(opLog, PinOp("CE", dsChipEnable(0)))
    /\ stack' = Goto(5)
    /\ UNCHANGED <<pinDir, dqChip, chip, retval, dsRegisters, reg,
                   serialOut, busLog, cal>>

(* A wake code with its last two bytes exchanged.                          *)
SendCodes_swapped == <<197, 58, 163, 92, 197, 58, 92, 163>>

(* The 8 bytes dsSendCodes sends, in order.                                *)
SendCodes == <<197, 58, 163, 92, 197, 58, 163, 92>>

dsSendCodes_send ==
    /\ In("dsSendCodes") /\ Top.pc \in 5..12
    /\ stack' = Call("dsSendByte", SendCodes[Top.pc - 4])
    /\ UNCHANGED <<pinDir, pinLevel, dqChip, chip, retval, dsRegisters, reg,
                   serialOut, busLog, opLog, cal>>

dsSendCodes_return ==
    /\ At("dsSendCodes", 13)
    /\ stack' = Return
    /\ UNCHANGED <<pinDir, pinLevel, dqChip, chip, retval, dsRegisters, reg,
                   serialOut, busLog, opLog, cal>>

----------------------------------------------------------------------------
(* dsWriteRegisters( year, month, day, dow, hours, minutes, seconds ):     *)
(* arg is the record of the arguments.                                     *)

(* An encode that selects the 12 hour format.                              *)
EncodeRegisters_12h(t) ==
    [i \in 1..8 |->
        CASE i = dsSubSecondRegister + 1 -> 0
          [] i = dsSecondsRegister + 1   -> decimal2BCD(ToByte(t.second))
          [] i = dsMinutesRegister + 1   -> decimal2BCD(ToByte(t.minute))
          [] i = dsHourRegister + 1      ->
                 BitOr(decimal2BCD(ToByte(t.hour)), ds1224bit)
          [] i = dsDayRegister + 1       -> decimal2BCD(ToByte(t.dow))
          [] i = dsDateRegister + 1      -> decimal2BCD(ToByte(t.date))
          [] i = dsMonthRegister + 1     -> decimal2BCD(ToByte(t.month))
          [] i = dsYearRegister + 1      -> decimal2BCD(ToByte(t.year % 100))]

(* An encode that stores the date and the month in each other's register.  *)
EncodeRegisters_swapped(t) ==
    [i \in 1..8 |->
        CASE i = dsSubSecondRegister + 1 -> 0
          [] i = dsSecondsRegister + 1   -> decimal2BCD(ToByte(t.second))
          [] i = dsMinutesRegister + 1   -> decimal2BCD(ToByte(t.minute))
          [] i = dsHourRegister + 1      -> decimal2BCD(ToByte(t.hour))
          [] i = dsDayRegister + 1       -> decimal2BCD(ToByte(t.dow))
          [] i = dsDateRegister + 1      -> decimal2BCD(ToByte(t.month))
          [] i = dsMonthRegister + 1     -> decimal2BCD(ToByte(t.date))
          [] i = dsYearRegister + 1      -> decimal2BCD(ToByte(t.year % 100))]

(* reg[] as the assignments of dsWriteRegisters fill it; year is an int,   *)
(* the other arguments are bytes.                                          *)
EncodeRegisters(t) ==
    [i \in 1..8 |->
        CASE i = dsSubSecondRegister + 1 -> 0
          [] i = dsSecondsRegister + 1   -> decimal2BCD(ToByte(t.second))
          [] i = dsMinutesRegister + 1   -> decimal2BCD(ToByte(t.minute))
          [] i = dsHourRegister + 1      -> decimal2BCD(ToByte(t.hour))
          [] i = dsDayRegister + 1       -> decimal2BCD(ToByte(t.dow))
          [] i = dsDateRegister + 1      -> decimal2BCD(ToByte(t.date))
          [] i = dsMonthRegister + 1     -> decimal2BCD(ToByte(t.month))
          [] i = dsYearRegister + 1      -> decimal2BCD(ToByte(t.year % 100))]

dsWriteRegisters_encode ==
    /\ At("dsWriteRegisters", 0)
    /\ reg' = EncodeRegisters(Top.arg)
    /\ stack' = Goto(1)
    /\ UNCHANGED <<pinDir, pinLevel, dqChip, chip, retval, dsRegisters,
                   serialOut, busLog, opLog, cal>>

(* Index of the register the i-th dsSendByte call of the write sends.      *)
WriteIndex(i) == i

dsWriteRegisters_send ==
    /\ In("dsWriteRegisters") /\ Top.pc \in 1..8
    /\ stack' = Call("dsSendByte", reg[WriteIndex(Top.pc - 1) + 1])
    /\ UNCHANGED <<pinDir, pinLevel, dqChip, chip, retval, dsRegisters, reg,
                   serialOut, busLog, opLog, cal>>

dsWriteRegisters_return ==
    /\ At("dsWriteRegisters", 9)
    /\ reg' = NoRegs
    /\ stack' = Return
    /\ UNCHANGED <<pinDir, pinLevel, dqChip, chip, retval, dsRegisters,
                   serialOut, busLog, opLog, cal>>

----------------------------------------------------------------------------
(* dsSerialPrintDate, dsSerialPrintTime, dsSerialPrintRegisters.           *)

dayStrings ==
    << <<77, 111, 110, 100, 97, 121>>,
       <<84, 117, 101, 115, 100, 97, 121>>,
       <<87, 101, 100, 110, 101, 115, 100, 97, 121>>,
       <<84, 104, 117, 114, 115, 100, 97, 121>>,
       <<70, 114, 105, 100, 97, 121>>,
       <<83, 97, 116, 117, 114, 100, 97, 121>>,
       <<83, 117, 110, 100, 97, 121>> >>

(* dsRegister[dsDayRegister] & 0x0f                                         *)
DayIndex(r) == BitAnd(r[dsDayRegister + 1], 15)

(* A report that checks the index and gives up when it is outside the      *)
(* table.                                                                  *)
DayStringAt_checked(dayIndex) ==
    IF dayIndex \in 0..6 THEN {dayStrings[dayIndex + 1]} ELSE {}

(* What Serial.print( dayStrings[dayIndex] ) can print.  dayStrings has    *)
(* the elements 0..6; reading another element is undefined behaviour: it   *)
(* may print any string, among them the table's names and nothing.         *)
DayStringAt(dayIndex) ==
    IF dayIndex \in 0..6
    THEN {dayStrings[dayIndex + 1]}
    ELSE {dayStrings[i] : i \in 1..7} \cup {<<>>, <<255>>}

dsSerialPrintDate(out, r) ==
    LET o1 == SerialPrint(out, <<50, 48>>)
        o2 == SerialPrint(o1, BCD2ASCII(r[dsYearRegister + 1]))
        o3 == SerialPrint(o2, <<45>>)
        o4 == SerialPrint(o3, BCD2ASCII(r[dsMonthRegister + 1]))
        o5 == SerialPrint(o4, <<45>>)
    IN  SerialPrint(o5, BCD2ASCII(r[dsDateRegister + 1]))

dsSerialPrintTime(out, r) ==
    LET o1 == SerialPrint(out, BCD2ASCII(r[dsHourRegister + 1]))
        o2 == SerialPrint(o1, <<58>>)
        o3 == SerialPrint(o2, BCD2ASCII(r[dsMinutesRegister + 1]))
        o4 == SerialPrint(o3, <<58>>)
        o5 == SerialPrint(o4, BCD2ASCII(r[dsSecondsRegister + 1]))
        o6 == SerialPrint(o5, <<46>>)
    IN  SerialPrint(o6, BCD2ASCII(r[dsSubSecondRegister + 1]))

dsSerialPrintRegisters ==
    /\ At("dsSerialPrintRegisters", 0)
    /\ \E name \in DayStringAt(DayIndex(dsRegisters)) :
          LET o1 == SerialPrint(serialOut, name)
              o2 == SerialPrint(o1, <<32>>)
              o3 == dsSerialPrintDate(o2, dsRegisters)
              o4 == SerialPrint(o3, <<32>>)
              o5 == dsSerialPrintTime(o4, dsRegisters)
          IN  serialOut' = SerialPrint(o5, CRLF)
    /\ stack' = Return
    /\ UNCHANGED <<pinDir, pinLevel, dqChip, chip, retval, dsRegisters, reg,
                   busLog, opLog, cal>>

----------------------------------------------------------------------------
(* dsReadAndPrintTime() and loop().                                        *)

dsReadAndPrintTime_wake ==
    /\ At("dsReadAndPrintTime", 0)
    /\ stack' = Call("dsSendCodes", 0)
    /\ UNCHANGED <<pinDir, pinLevel, dqChip, chip, retval, dsRegisters, reg,
                   serialOut, busLog, opLog, cal>>

dsReadAndPrintTime_read ==
    /\ At("dsReadAndPrintTime", 1)
    /\ stack' = Call("dsReadRegisters", 0)
    /\ UNCHANGED <<pinDir, pinLevel, dqChip, chip, retval, dsRegisters, reg,
                   serialOut, busLog, opLog, cal>>

dsReadAndPrintTime_print ==
    /\ At("dsReadAndPrintTime", 2)
    /\ stack' = Call("dsSerialPrintRegisters", 0)
    /\ UNCHANGED <<pinDir, pinLevel, dqChip, chip, retval, dsRegisters, reg,
                   serialOut, busLog, opLog, cal>>

(* The function returns and its array dsRegisters goes out of scope.       *)
dsReadAndPrintTime_return ==
    /\ At("dsReadAndPrintTime", 3)
    /\ dsRegisters' = NoRegs
    /\ stack' = Return
    /\ UNCHANGED <<pinDir, pinLevel, dqChip, chip, retval, reg,
                   serialOut, busLog, opLog, cal>>

loop_read ==
    /\ At("loop", 0)
    /\ stack' = Call("dsReadAndPrintTime", 0)
    /\ UNCHANGED <<pinDir, pinLevel, dqChip, chip, retval, dsRegisters, reg,
                   serialOut, busLog, opLog, cal>>

(* delay(300); loop() returns and is called again.                         *)
loop_delay ==
    /\ At("loop", 1)
    /\ stack' = Goto(0)
    /\ UNCHANGED <<pinDir, pinLevel, dqChip, chip, retval, dsRegisters, reg,
                   serialOut, busLog, opLog, cal>>

----------------------------------------------------------------------------
(* The sketch.                                                             *)

Transport ==
    \/ dsWriteBit_data \/ dsWriteBit_WE_low \/ dsWriteBit_WE_high
    \/ dsSendByte_enable \/ dsSendByte_pinMode \/ dsSendByte_bit
    \/ dsSendByte_disable
    \/ dsReadBit_OE_low \/ dsReadBit_sample \/ dsReadBit_OE_high
    \/ dsReadBit_return
    \/ dsReadByte_pinMode \/ dsReadByte_enable \/ dsReadByte_call
    \/ dsReadByte_store \/ dsReadByte_disable \/ dsReadByte_return

Next ==
    \/ setup_pinMode \/ setup_digitalWrite \/ setup_dq \/ setup_serial
    \/ setup_SETDATETIME \/ setup_dsWriteRegisters \/ setup_return
    \/ Transport
    \/ dsReadRegisters_call \/ dsReadRegisters_store
    \/ dsSendCodes_enable \/ dsSendCodes_pinMode \/ dsSendCodes_read
    \/ dsSendCodes_temp \/ dsSendCodes_disable \/ dsSendCodes_send
    \/ dsSendCodes_return
    \/ dsWriteRegisters_encode \/ dsWriteRegisters_send
    \/ dsWriteRegisters_return
    \/ dsSerialPrintRegisters
    \/ dsReadAndPrintTime_wake \/ dsReadAndPrintTime_read
    \/ dsReadAndPrintTime_print \/ dsReadAndPrintTime_return
    \/ loop_read \/ loop_delay

Spec == Init /\ [][Next]_vars

----------------------------------------------------------------------------
(* Drivers for single functions.  Each starts from the pin state setup()   *)
(* leaves, with the function's inputs drawn from the sets below, and runs  *)
(* the function's own actions until it returns to the driver's frame.      *)

PinsAfterSetup == [p \in Pins |-> OUTPUT]

LatchAfterSetup == [p \in Pins |-> IF p = dsDQ0pin THEN LOW ELSE HIGH]

Driver(fn, arg) == [fn |-> fn, pc |-> 1, arg |-> arg, b |-> 0]

InitRest ==
    /\ dqChip = HiZ
    /\ retval = 0
    /\ reg = NoRegs
    /\ serialOut = <<>>
    /\ busLog = <<>>
    /\ opLog = <<>>
    /\ cal = NoCal

(* dsSendByte( n ) for every byte n, from either direction and level of    *)
(* DQ0.                                                                    *)
InitSend ==
    /\ \E n \in Byte : stack = <<Driver("call_dsSendByte", n),
                                Frame("dsSendByte", n)>>
    /\ \E d \in {INPUT, OUTPUT} : pinDir = [PinsAfterSetup EXCEPT ![dsDQ0pin] = d]
    /\ \E l \in {LOW, HIGH} : pinLevel = [LatchAfterSetup EXCEPT ![dsDQ0pin] = l]
    /\ chip = ChipLocked
    /\ dsRegisters = NoRegs
    /\ InitRest

NextSend ==
    \/ dsSendByte_enable \/ dsSendByte_pinMode \/ dsSendByte_bit
    \/ dsSendByte_disable
    \/ dsWriteBit_data \/ dsWriteBit_WE_low \/ dsWriteBit_WE_high

SpecSend == InitSend /\ [][NextSend]_vars

(* dsReadByte() against an unlocked chip whose next register holds any     *)
(* byte.                                                                   *)
InitRecv ==
    /\ stack = <<Driver("call_dsReadByte", 0), Frame("dsReadByte", 0)>>
    /\ \E d \in {INPUT, OUTPUT} : pinDir = [PinsAfterSetup EXCEPT ![dsDQ0pin] = d]
    /\ \E l \in {LOW, HIGH} : pinLevel = [LatchAfterSetup EXCEPT ![dsDQ0pin] = l]
    /\ \E v \in Byte :
          chip = [match |-> 64, xfer |-> 0, image |-> [NoRegs EXCEPT ![1] = v]]
    /\ dsRegisters = NoRegs
    /\ InitRest

NextRecv ==
    \/ dsReadByte_pinMode \/ dsReadByte_enable \/ dsReadByte_call
    \/ dsReadByte_store \/ dsReadByte_disable \/ dsReadByte_return
    \/ dsReadBit_OE_low \/ dsReadBit_sample \/ dsReadBit_OE_high
    \/ dsReadBit_return

SpecRecv == InitRecv /\ [][NextRecv]_vars

(* decimal2BCD then BCD2Decimal, and BCD2Decimal then decimal2BCD, on      *)
(* every byte.                                                             *)
InitBCD ==
    /\ \E fn \in {"call_decimal2BCD", "call_BCD2Decimal"} : \E v \in Byte :
          stack = <<Frame(fn, v)>>
    /\ pinDir = PinsAfterSetup
    /\ pinLevel = LatchAfterSetup
    /\ chip = ChipLocked
    /\ dsRegisters = NoRegs
    /\ InitRest

call_decimal2BCD ==
    /\ \/ At("call_decimal2BCD", 0)
       \/ At("call_BCD2Decimal", 1)
    /\ stack' = [Goto(Top.pc + 1) EXCEPT ![Len(stack)].b =
                     decimal2BCD(IF Top.pc = 0 THEN Top.arg ELSE Top.b)]
    /\ UNCHANGED <<pinDir, pinLevel, dqChip, chip, retval, dsRegisters, reg,
                   serialOut, busLog, opLog, cal>>

call_BCD2Decimal ==
    /\ \/ At("call_BCD2Decimal", 0)
       \/ At("call_decimal2BCD", 1)
    /\ stack' = [Goto(Top.pc + 1) EXCEPT ![Len(stack)].b =
                     BCD2Decimal(IF Top.pc = 0 THEN Top.arg ELSE Top.b)]
    /\ UNCHANGED <<pinDir, pinLevel, dqChip, chip, retval, dsRegisters, reg,
                   serialOut, busLog, opLog, cal>>

NextBCD == call_decimal2BCD \/ call_BCD2Decimal

SpecBCD == InitBCD /\ [][NextBCD]_vars

(* The register codec: the encoding of dsWriteRegisters, then the decoding *)
(* of the image it built.                                                  *)
YearRange == 0..99
MonthRange == 1..12
DateRange == 1..31
DowRange == 1..7
HourRange == 0..23
MinuteRange == 0..59
SecondRange == 0..59
SubSecondRange == 0..99

CalendarBases ==
    {SetTime(25, 12, 31, 3, 9, 5, 0), SetTime(19, 2, 3, 7, 21, 27, 0),
     [SetTime(99, 1, 1, 1, 23, 59, 59) EXCEPT !.subsecond = 99]}

(* Every value of every field, the other fields taken from a base.         *)
CalendarSamples ==
    UNION {
        {[c EXCEPT !.year = v] : v \in YearRange}
        \cup {[c EXCEPT !.month = v] : v \in MonthRange}
        \cup {[c EXCEPT !.date = v] : v \in DateRange}
        \cup {[c EXCEPT !.dow = v] : v \in DowRange}
        \cup {[c EXCEPT !.hour = v] : v \in HourRange}
        \cup {[c EXCEPT !.minute = v] : v \in MinuteRange}
        \cup {[c EXCEPT !.second = v] : v \in SecondRange}
        \cup {[c EXCEPT !.subsecond = v] : v \in SubSecondRange}
        : c \in CalendarBases}

(* Register image to CalendarTime: BCD2Decimal of each register, the       *)
(* day-of-week from the low 4 bits of the day register as                  *)
(* dsSerialPrintRegisters takes it.                                        *)
DecodeRegisters(r) ==
    [subsecond |-> BCD2Decimal(r[dsSubSecondRegister + 1]),
     second    |-> BCD2Decimal(r[dsSecondsRegister + 1]),
     minute    |-> BCD2Decimal(r[dsMinutesRegister + 1]),
     hour      |-> BCD2Decimal(r[dsHourRegister + 1]),
     dow       |-> BCD2Decimal(DayIndex(r)),
     date      |-> BCD2Decimal(r[dsDateRegister + 1]),
     month     |-> BCD2Decimal(r[dsMonthRegister + 1]),
     year      |-> BCD2Decimal(r[dsYearRegister + 1])]

InitCodec ==
    /\ \E t \in CalendarSamples :
          stack = <<Driver("call_codec", t), Frame("dsWriteRegisters", t)>>
    /\ pinDir = PinsAfterSetup
    /\ pinLevel = LatchAfterSetup
    /\ chip = ChipLocked
    /\ dsRegisters = NoRegs
    /\ InitRest

(* The driver takes the image when it is built and decodes it.             *)
codec_decode ==
    /\ At("dsWriteRegisters", 1)
    /\ Caller.fn = "call_codec"
    /\ cal' = DecodeRegisters(reg)
    /\ stack' = Return
    /\ UNCHANGED <<pinDir, pinLevel, dqChip, chip, retval,
                   dsRegisters, reg, serialOut, busLog, opLog>>

NextCodec == dsWriteRegisters_encode \/ codec_decode

SpecCodec == InitCodec /\ [][NextCodec]_vars

(* One read of the 8 registers and its report, against an unlocked chip:   *)
(* the state dsReadAndPrintTime is in when dsSendCodes has returned.       *)
ReadImages ==
    {[ScenarioImage EXCEPT ![i] = v] : i \in 1..8, v \in Byte}

InitRead ==
    /\ stack = <<Driver("loop", 0), Driver("dsReadAndPrintTime", 0)>>
    /\ pinDir = PinsAfterSetup
    /\ pinLevel = [LatchAfterSetup EXCEPT ![dsDQ0pin] = LOW]
    /\ \E img \in ReadImages : chip = [match |-> 64, xfer |-> 0, image |-> img]
    /\ dsRegisters = NoRegs
    /\ InitRest

NextRead ==
    \/ dsReadAndPrintTime_read \/ dsReadAndPrintTime_print
    \/ dsReadRegisters_call \/ dsReadRegisters_store
    \/ dsReadByte_pinMode \/ dsReadByte_enable \/ dsReadByte_call
    \/ dsReadByte_store \/ dsReadByte_disable \/ dsReadByte_return
    \/ dsReadBit_OE_low \/ dsReadBit_sample \/ dsReadBit_OE_high
    \/ dsReadBit_return
    \/ dsSerialPrintRegisters

SpecRead == InitRead /\ [][NextRead]_vars

----------------------------------------------------------------------------
(* Vocabulary of the properties.                                           *)

OnStack(fn) == \E i \in 1..Len(stack) : stack[i].fn = fn

FrameOf(fn) == stack[CHOOSE i \in 1..Len(stack) : stack[i].fn = fn]

IsPrefix(s, t) == Len(s) <= Len(t) /\ \A i \in 1..Len(s) : s[i] = t[i]

Take(s, n) == SubSeq(s, 1, IF n < Len(s) THEN n ELSE Len(s))

(* The 9 transport operations of the wake sequence: the throwaway bit read *)
(* and the bytes C5 3A A3 5C C5 3A A3 5C.                                  *)
WakeOps ==
    <<BusOp("readbit", 0)>> \o [i \in 1..8 |-> BusOp("send", WakeCode[i])]

RecvOps(r) == [i \in 1..8 |-> BusOp("recv", r[i])]

SendOps(r) == [i \in 1..8 |-> BusOp("send", r[i])]

(* Pin operations of one send-byte of n, least significant bit first.      *)
SendBitTrace(n, k) ==
    <<PinOp("DQ", Bit(n, k)), PinOp("WE", LOW), PinOp("WE", HIGH)>>

SendTrace(n) ==
    <<PinOp("CE", LOW), PinOp("DIR", OUTPUT)>>
    \o SendBitTrace(n, 0) \o SendBitTrace(n, 1) \o SendBitTrace(n, 2)
    \o SendBitTrace(n, 3) \o SendBitTrace(n, 4) \o SendBitTrace(n, 5)
    \o SendBitTrace(n, 6) \o SendBitTrace(n, 7)
    \o <<PinOp("CE", HIGH)>>

(* Pin operations of one receive-byte that samples the bits s[1..8].       *)
RecvBitTrace(v) ==
    <<PinOp("OE", LOW), PinOp("READ", v), PinOp("OE", HIGH)>>

RecvTrace(s) ==
    <<PinOp("DIR", INPUT), PinOp("CE", LOW)>>
    \o RecvBitTrace(s[1]) \o RecvBitTrace(s[2]) \o RecvBitTrace(s[3])
    \o RecvBitTrace(s[4]) \o RecvBitTrace(s[5]) \o RecvBitTrace(s[6])
    \o RecvBitTrace(s[7]) \o RecvBitTrace(s[8])
    \o <<PinOp("CE", HIGH)>>

(* The bits the current receive-byte sampled, in order.                    *)
Sampled == [k \in 1..8 |-> opLog[3 * k + 1].v]

(* The byte whose bit k is s[k+1].                                         *)
ByteOfBits(s) ==
    s[1] + 2 * s[2] + 4 * s[3] + 8 * s[4] + 16 * s[5] + 32 * s[6]
    + 64 * s[7] + 128 * s[8]

----------------------------------------------------------------------------
(* C1: a full read cycle issues one complete wake sequence, then exactly 8 *)
(* receive-byte operations that fill the registers 0..7 in ascending       *)
(* order, with nothing in between; chip-enable is high at the end of       *)
(* every byte operation and when the cycle completes.                      *)
C1_ReadCycleOrder ==
    /\ (/\ OnStack("dsReadAndPrintTime")
        /\ FrameOf("dsReadAndPrintTime").pc \in {1, 2}
        /\ ~At("dsSendCodes", 0))
       => /\ Len(busLog) <= 17
          /\ IsPrefix(Take(busLog, 9), WakeOps)
          /\ \A j \in 10..Len(busLog) : busLog[j].op = "recv"
    /\ OnStack("dsReadRegisters")
       => /\ Len(busLog) = 9 + (IF In("dsReadRegisters")
                                 THEN (Top.pc + 1) \div 2
                                 ELSE FrameOf("dsReadRegisters").pc \div 2)
          /\ Take(busLog, 9) = WakeOps
          /\ \A i \in 1..8 :
                (2 * i <= FrameOf("dsReadRegisters").pc)
                => dsRegisters[i] = busLog[9 + i].val
    /\ (In("dsReadRegisters") /\ Top.pc \in {1, 3, 5, 7, 9, 11, 13, 15})
       => pinLevel[ds_CEpin] = HIGH
    /\ (In("dsSendCodes") /\ Top.pc \in 5..13)
       => pinLevel[ds_CEpin] = HIGH
    /\ (In("dsReadAndPrintTime") /\ Top.pc \in {2, 3})
       => /\ busLog = WakeOps \o RecvOps(dsRegisters)
          /\ pinLevel[ds_CEpin] = HIGH

C1_Witness ==
    /\ At("dsReadAndPrintTime", 2)
    /\ dsRegisters = ScenarioImage
    /\ busLog = WakeOps \o RecvOps(ScenarioImage)

(* C2: every wake sequence emits exactly 9 transport operations in fixed   *)
(* order: one bit read made with chip-enable low and DQ0 an input, the     *)
(* chip-enable raised afterwards, then the sends of C5 3A A3 5C C5 3A A3   *)
(* 5C.                                                                     *)
C2_WakeSequence ==
    /\ (OnStack("dsSendCodes") /\ FrameOf("dsSendCodes").pc >= 1)
       => IsPrefix(busLog, WakeOps)
    /\ At("dsSendCodes", 13) => busLog = WakeOps
    /\ (In("dsReadBit") /\ Caller.fn = "dsSendCodes" /\ Top.pc \in {1, 2})
       => /\ pinLevel[ds_CEpin] = LOW
          /\ pinDir[dsDQ0pin] = INPUT
          /\ busLog = <<>>
    /\ At("dsSendCodes", 5)
       => /\ pinLevel[ds_CEpin] = HIGH
          /\ busLog = <<BusOp("readbit", 0)>>
          /\ opLog = <<PinOp("CE", LOW), PinOp("DIR", INPUT)>>
                     \o RecvBitTrace(Top.b) \o <<PinOp("CE", HIGH)>>
    /\ (In("dsSendCodes") /\ Top.pc \in 5..13)
       => Len(busLog) = Top.pc - 4

C2_Witness ==
    /\ At("dsSendCodes", 13)
    /\ busLog = WakeOps
    /\ Caller.fn = "dsReadAndPrintTime"

C4_SendByte ==
    /\ At("call_dsSendByte", 1) => opLog = SendTrace(Top.arg)
    /\ (At("dsWriteBit", 2) /\ Caller.fn = "dsSendByte")
       => /\ pinLevel[ds_WEpin] = LOW
          /\ pinLevel[ds_CEpin] = LOW
          /\ pinDir[dsDQ0pin] = OUTPUT
          /\ pinLevel[dsDQ0pin] = Bit(Caller.arg, Caller.pc - 3)
    /\ At("call_dsSendByte", 1)
       => /\ pinLevel[ds_CEpin] = HIGH
          /\ pinLevel[ds_WEpin] = HIGH
          /\ pinDir[dsDQ0pin] = OUTPUT

C4_Witness ==
    /\ At("call_dsSendByte", 1)
    /\ Top.arg = 163
    /\ opLog = SendTrace(163)

(* C5: receive-byte makes DQ0 an input, then lowers chip-enable, reads     *)
(* exactly 8 bits, raises chip-enable and returns the byte whose bit k is  *)
(* the k-th sampled bit.                                                   *)
C5_ReceiveByte ==
    At("call_dsReadByte", 1)
    => /\ Len(opLog) = 27
       /\ opLog = RecvTrace(Sampled)
       /\ retval = ByteOfBits(Sampled)
       /\ busLog = <<BusOp("recv", retval)>>
       /\ pinLevel[ds_CEpin] = HIGH
       /\ pinDir[dsDQ0pin] = INPUT

C5_Witness ==
    /\ At("call_dsReadByte", 1)
    /\ retval = 165
    /\ Sampled = <<1, 0, 1, 0, 0, 1, 0, 1>>

----------------------------------------------------------------------------
(* Both nibbles of b are decimal digits.                                   *)
ValidBCD(b) == (b \div 16) \in 0..9 /\ (b % 16) \in 0..9

(* v is the packed BCD numeral of d: tens digit high, ones digit low.      *)
IsBCDOf(v, d) == (v \div 16) = (d \div 10) /\ (v % 16) = (d % 10)

InChipRanges(t) ==
    /\ t.year \in YearRange /\ t.month \in MonthRange /\ t.date \in DateRange
    /\ t.dow \in DowRange /\ t.hour \in HourRange /\ t.minute \in MinuteRange
    /\ t.second \in SecondRange /\ t.subsecond \in SubSecondRange

(* C6: decimal2BCD and BCD2Decimal are mutual inverses: decode(encode(d))  *)
(* is d for every d in 0..99, and encode(decode(b)) is b for every byte b  *)
(* whose nibbles are both in 0..9.                                         *)
C6_BCDInverse ==
    /\ (At("call_decimal2BCD", 2) /\ Top.arg \in 0..99) => Top.b = Top.arg
    /\ (At("call_BCD2Decimal", 2) /\ ValidBCD(Top.arg)) => Top.b = Top.arg

C6_Witness ==
    /\ At("call_BCD2Decimal", 2)
    /\ Top.arg = 153
    /\ Top.b = 153

(* C7, as claimed: decoding the image the encode produced reproduces the   *)
(* identical CalendarTime, the sub-second field included.                  *)
C7_RoundTripAll ==
    (At("call_codec", 1) /\ InChipRanges(Top.arg)) => cal = Top.arg

(* C7, amended: decoding the image the encode produced reproduces year,    *)
(* month, date, day-of-week, hour, minute and second; the sub-second is    *)
(* not encoded and decodes to 0.                                           *)
C7_RoundTrip ==
    (At("call_codec", 1) /\ InChipRanges(Top.arg))
    => cal = [Top.arg EXCEPT !.subsecond = 0]

C7_Witness ==
    /\ At("call_codec", 1)
    /\ Top.arg = [SetTime(99, 1, 1, 1, 23, 59, 59) EXCEPT !.subsecond = 99]
    /\ cal = SetTime(99, 1, 1, 1, 23, 59, 59)

(* C8: the image the write cycle builds has register 0 equal to 0 and      *)
(* registers 1..7 equal to the BCD numerals of second, minute, hour,       *)
(* day-of-week, date, month, year; decoding it gives the same seven        *)
(* values back.                                                            *)
C8_WriteThenRead ==
    (At("call_codec", 1) /\ InChipRanges(Top.arg))
    => /\ reg[1] = 0
       /\ IsBCDOf(reg[2], Top.arg.second)
       /\ IsBCDOf(reg[3], Top.arg.minute)
       /\ IsBCDOf(reg[4], Top.arg.hour)
       /\ IsBCDOf(reg[5], Top.arg.dow)
       /\ IsBCDOf(reg[6], Top.arg.date)
       /\ IsBCDOf(reg[7], Top.arg.month)
       /\ IsBCDOf(reg[8], Top.arg.year)
       /\ \A i \in 1..8 : reg[i] \in Byte
       /\ cal.second = Top.arg.second /\ cal.minute = Top.arg.minute
       /\ cal.hour = Top.arg.hour /\ cal.dow = Top.arg.dow
       /\ cal.date = Top.arg.date /\ cal.month = Top.arg.month
       /\ cal.year = Top.arg.year

C8_Witness ==
    /\ At("call_codec", 1)
    /\ Top.arg = SetTime(25, 12, 31, 3, 9, 5, 0)
    /\ reg = <<0, 0, 5, 9, 3, 49, 18, 37>>
    /\ cal = SetTime(25, 12, 31, 3, 9, 5, 0)

(* C9: when the day index (low 4 bits of the day register) read from the   *)
(* chip is in 1..7, the read cycle reports a weekday name of the 7-entry   *)
(* table, and reports Sunday for day index 7.                              *)
C9_WeekdayName ==
    (At("dsReadAndPrintTime", 3) /\ DayIndex(dsRegisters) \in 1..7)
    => /\ \E i \in 1..7 : serialOut[1] = dayStrings[i]
       /\ DayIndex(dsRegisters) = 7 => serialOut[1] = dayStrings[7]

RECURSIVE Flatten(_)
Flatten(ss) == IF ss = <<>> THEN <<>> ELSE Head(ss) \o Flatten(Tail(ss))

(* The two-digit zero-padded decimal numeral of v, as character codes.     *)
TwoDigits(v) == <<48 + (v \div 10), 48 + (v % 10)>>

(* Decimal value of a packed BCD byte.                                     *)
BCDValue(b) == (10 * (b \div 16)) + (b % 16)

(* C10: when all nibbles of the registers 0,1,2,3,5,6,7 read from the chip *)
(* are in 0..9, the read cycle reports, after the weekday and a space,     *)
(* 20YY-MM-DD HH:MM:SS.ss with the two-digit decimal values of the         *)
(* registers 7, 6, 5, 3, 2, 1, 0.                                          *)
C10_DateTimeFormat ==
    (At("dsReadAndPrintTime", 3)
     /\ \A i \in {1, 2, 3, 4, 6, 7, 8} : ValidBCD(dsRegisters[i]))
    => /\ Len(serialOut) = 17
       /\ serialOut[2] = <<32>>
       /\ Flatten(SubSeq(serialOut, 3, 17)) =
             <<50, 48>> \o TwoDigits(BCDValue(dsRegisters[8])) \o <<45>>
             \o TwoDigits(BCDValue(dsRegisters[7])) \o <<45>>
             \o TwoDigits(BCDValue(dsRegisters[6])) \o <<32>>
             \o TwoDigits(BCDValue(dsRegisters[4])) \o <<58>>
             \o TwoDigits(BCDValue(dsRegisters[3])) \o <<58>>
             \o TwoDigits(BCDValue(dsRegisters[2])) \o <<46>>
             \o TwoDigits(BCDValue(dsRegisters[1])) \o CRLF

C10_Witness ==
    /\ At("dsReadAndPrintTime", 3)
    /\ dsRegisters = <<0, 39, 49, 21, 7, 25, 2, 32>>
    /\ Flatten(SubSeq(serialOut, 3, 17)) =
          <<50, 48, 50, 48, 45, 48, 50, 45, 49, 57, 32,
            49, 53, 58, 51, 49, 58, 50, 55, 46, 48, 48, 13, 10>>

----------------------------------------------------------------------------
(* BCD2ASCII on every byte, and on decimal2BCD( d ) for every byte d.  b   *)
(* is the byte handed to BCD2ASCII; retval is the pair str[0], str[1].     *)
InitDigit ==
    /\ \E v \in Byte :
          \/ stack = <<[fn |-> "call_BCD2ASCII", pc |-> 1, arg |-> v, b |-> v]>>
          \/ stack = <<Frame("call_decimal2BCD_BCD2ASCII", v)>>
    /\ pinDir = PinsAfterSetup
    /\ pinLevel = LatchAfterSetup
    /\ chip = ChipLocked
    /\ dsRegisters = NoRegs
    /\ InitRest

digit_decimal2BCD ==
    /\ At("call_decimal2BCD_BCD2ASCII", 0)
    /\ stack' = [Goto(1) EXCEPT ![Len(stack)].b = decimal2BCD(Top.arg)]
    /\ UNCHANGED <<pinDir, pinLevel, dqChip, chip, retval, dsRegisters, reg,
                   serialOut, busLog, opLog, cal>>

digit_BCD2ASCII ==
    /\ \/ At("call_BCD2ASCII", 1)
       \/ At("call_decimal2BCD_BCD2ASCII", 1)
    /\ retval' = BCD2ASCII(Top.b)
    /\ stack' = Goto(2)
    /\ UNCHANGED <<pinDir, pinLevel, dqChip, chip, dsRegisters, reg,
                   serialOut, busLog, opLog, cal>>

NextDigit == digit_decimal2BCD \/ digit_BCD2ASCII

SpecDigit == InitDigit /\ [][NextDigit]_vars

(* Character codes of the decimal digits '0'..'9'.                         *)
DigitChars == 48..57

(* C11: for every byte b, toDigitPair(b) is the pair of characters         *)
(* '0' + high nibble, '0' + low nibble, never rejected; so for d in 0..99  *)
(* toDigitPair(encode(d)) is the two-digit decimal numeral of d, and a     *)
(* nibble of 10 or more gives a character that is not a digit.             *)
C11_DigitPair ==
    /\ (In("call_BCD2ASCII") \/ In("call_decimal2BCD_BCD2ASCII")) /\ Top.pc = 2
       => /\ Len(retval) = 2
          /\ retval[1] - 48 \in 0..15
          /\ retval[2] - 48 \in 0..15
          /\ Top.b = (16 * (retval[1] - 48)) + (retval[2] - 48)
          /\ (retval[1] \in DigitChars) <=> ((Top.b \div 16) < 10)
          /\ (retval[2] \in DigitChars) <=> ((Top.b % 16) < 10)
    /\ (At("call_decimal2BCD_BCD2ASCII", 2) /\ Top.arg \in 0..99)
       => retval = TwoDigits(Top.arg)
    /\ (At("call_BCD2ASCII", 2) /\ Top.arg = 0) => retval = <<48, 48>>
    /\ (At("call_BCD2ASCII", 2) /\ Top.arg = 153) => retval = <<57, 57>>
    /\ (At("call_decimal2BCD_BCD2ASCII", 2) /\ Top.arg = 7)
       => retval = <<48, 55>>

C11_Witness ==
    /\ At("call_decimal2BCD_BCD2ASCII", 2)
    /\ Top.arg = 7
    /\ Top.b = 7
    /\ retval = <<48, 55>>

(* C12, as claimed: for every d in 100..255 the byte decimal2BCD returns   *)
(* has a nibble of 10 or more.                                             *)
C12_OutOfRangeInvalid ==
    (At("call_decimal2BCD", 1) /\ Top.arg \in 100..255) => ~ValidBCD(Top.b)

(* C12, amended: for every d in 100..159 the byte decimal2BCD returns has  *)
(* a high nibble of 10 or more; for d in 160..255 the truncation to 8 bits *)
(* leaves the valid packed BCD numeral of d - 160.                         *)
C12_OutOfRange ==
    /\ (At("call_decimal2BCD", 1) /\ Top.arg \in 100..159)
       => /\ (Top.b \div 16) >= 10
          /\ ~ValidBCD(Top.b)
    /\ (At("call_decimal2BCD", 1) /\ Top.arg \in 160..255)
       => /\ ValidBCD(Top.b)
          /\ BCDValue(Top.b) = Top.arg - 160

C12_Witness ==
    /\ At("call_decimal2BCD", 1)
    /\ Top.arg = 160
    /\ Top.b = 0

----------------------------------------------------------------------------
(* The host drives the line of the pin low.                                *)
LineLow(pin) == pinDir[pin] = OUTPUT /\ pinLevel[pin] = LOW

LineHigh(pin) == pinDir[pin] = OUTPUT /\ pinLevel[pin] = HIGH

(* setup() has made /CE, /OE and /WE outputs and written them HIGH.        *)
PinsInitialised == ~(OnStack("setup") /\ FrameOf("setup").pc <= 5)

(* The bit a dsWriteBit call of dsSendByte is writing.                     *)
BitBeingWritten == Bit(Caller.arg, Caller.pc - 3)

(* C13, as claimed: in every reachable state, setup() included, whenever   *)
(* write-enable is low DQ0 is an output that carries the bit being written *)
(* and chip-enable is low.                                                 *)
C13_WriteEnableAlways ==
    LineLow(ds_WEpin)
    => /\ pinDir[dsDQ0pin] = OUTPUT
       /\ LineLow(ds_CEpin)
       /\ In("dsWriteBit") /\ Caller.fn = "dsSendByte"
       /\ pinLevel[dsDQ0pin] = BitBeingWritten

(* C13, amended: in every reachable state after setup() has initialised    *)
(* the control pins, whenever write-enable is low DQ0 is an output that    *)
(* carries the bit being written and chip-enable is low.                   *)
C13_WriteEnable ==
    (PinsInitialised /\ LineLow(ds_WEpin))
    => /\ pinDir[dsDQ0pin] = OUTPUT
       /\ LineLow(ds_CEpin)
       /\ In("dsWriteBit") /\ Caller.fn = "dsSendByte"
       /\ pinLevel[dsDQ0pin] = BitBeingWritten
       /\ pinLevel[dsDQ0pin] = Top.arg

C13_Witness ==
    /\ At("dsWriteBit", 2)
    /\ LineLow(ds_WEpin)
    /\ OnStack("dsWriteRegisters")
    /\ Caller.arg = 39
    /\ pinLevel[dsDQ0pin] = HIGH

(* C14, as claimed: in every reachable state, setup() included, whenever   *)
(* output-enable is low DQ0 is an input and chip-enable is low; the host   *)
(* never drives DQ0 while the chip is enabled to drive it.                 *)
C14_OutputEnableAlways ==
    /\ LineLow(ds_OEpin)
       => /\ pinDir[dsDQ0pin] = INPUT
          /\ LineLow(ds_CEpin)
    /\ dqChip # HiZ => pinDir[dsDQ0pin] = INPUT

(* C14, amended: in every reachable state after setup() has initialised    *)
(* the control pins, whenever output-enable is low DQ0 is an input and     *)
(* chip-enable is low; the host never drives DQ0 while the chip drives it. *)
C14_OutputEnable ==
    /\ (PinsInitialised /\ LineLow(ds_OEpin))
       => /\ pinDir[dsDQ0pin] = INPUT
          /\ LineLow(ds_CEpin)
          /\ In("dsReadBit") /\ Top.pc \in {1, 2}
    /\ dqChip # HiZ => pinDir[dsDQ0pin] = INPUT

C14_Witness ==
    /\ At("dsReadBit", 1)
    /\ Caller.fn = "dsSendCodes"
    /\ LineLow(ds_OEpin)
    /\ pinDir[dsDQ0pin] = INPUT

(* C19: after setup() has initialised the pins, output-enable and          *)
(* write-enable are never low together; at the end of setup() and between  *)
(* the read cycles of loop() chip-enable, output-enable and write-enable   *)
(* are all high.                                                           *)
C19_ControlLines ==
    /\ PinsInitialised => ~(LineLow(ds_OEpin) /\ LineLow(ds_WEpin))
    /\ (At("setup", 10) \/ In("loop"))
       => /\ LineHigh(ds_CEpin)
          /\ LineHigh(ds_OEpin)
          /\ LineHigh(ds_WEpin)

C19_Witness ==
    /\ At("loop", 1)
    /\ Len(serialOut) = 17
    /\ LineHigh(ds_CEpin) /\ LineHigh(ds_OEpin) /\ LineHigh(ds_WEpin)

----------------------------------------------------------------------------
(* dsSerialPrintRegisters on two register images that differ only in the   *)
(* bits 4..7 of the day register: the driver keeps the weekday reported    *)
(* for the first image in b and then reports the second image.             *)
DayImages == {[ScenarioImage EXCEPT ![dsDayRegister + 1] = d] : d \in Byte}

(* img with the bits 4..7 of its day register replaced by h.               *)
WithDayHighBits(img, h) ==
    [img EXCEPT ![dsDayRegister + 1] = (16 * h) + (@ % 16)]

InitPair ==
    /\ \E img \in DayImages : \E h \in 0..15 :
          /\ stack = <<Driver("call_pair",
                              [first |-> img,
                               second |-> WithDayHighBits(img, h)]),
                       Frame("dsSerialPrintRegisters", 0)>>
          /\ dsRegisters = img
    /\ pinDir = PinsAfterSetup
    /\ pinLevel = LatchAfterSetup
    /\ chip = ChipLocked
    /\ InitRest

pair_second ==
    /\ At("call_pair", 1)
    /\ dsRegisters' = Top.arg.second
    /\ stack' = Append([Goto(2) EXCEPT ![Len(stack)].b = serialOut[1]],
                       Frame("dsSerialPrintRegisters", 0))
    /\ UNCHANGED <<pinDir, pinLevel, dqChip, chip, retval, reg,
                   serialOut, busLog, opLog, cal>>

NextPair == dsSerialPrintRegisters \/ pair_second

SpecPair == InitPair /\ [][NextPair]_vars

(* C15: two register images that differ only in the bits 4..7 of the day   *)
(* register (the oscillator flag among them) are reported with the same    *)
(* day-of-week, and the report leaves the day register as it was read.     *)
C15_DayLowBitsOnly ==
    At("call_pair", 2)
    => /\ serialOut[1] = Top.b
       /\ dsRegisters = Top.arg.second

----------------------------------------------------------------------------
(* dsWriteRegisters with the chip just unlocked by dsSendCodes: the encode *)
(* and the eight dsSendByte calls, for every value of every argument.      *)
InitWrite ==
    /\ \E t \in CalendarSamples :
          stack = <<Driver("call_dsWriteRegisters", t),
                    Frame("dsWriteRegisters", t)>>
    /\ pinDir = [PinsAfterSetup EXCEPT ![dsDQ0pin] = OUTPUT]
    /\ pinLevel = LatchAfterSetup
    /\ chip = [match |-> 64, xfer |-> 0, image |-> ScenarioImage]
    /\ dsRegisters = NoRegs
    /\ InitRest

NextWrite ==
    \/ dsWriteRegisters_encode \/ dsWriteRegisters_send
    \/ dsWriteRegisters_return
    \/ dsSendByte_enable \/ dsSendByte_pinMode \/ dsSendByte_bit
    \/ dsSendByte_disable
    \/ dsWriteBit_data \/ dsWriteBit_WE_low \/ dsWriteBit_WE_high

SpecWrite == InitWrite /\ [][NextWrite]_vars

(* The arguments of the write cycle in progress.                           *)
WriteArgs == FrameOf("call_dsWriteRegisters").arg

(* C20: in a write cycle with day-of-week in 1..7 the byte sent for the    *)
(* day register has the oscillator bit 0x20 clear, and with hour in 0..23  *)
(* the byte sent for the hour register has the 12/24 bit 0x80 clear.       *)
C20_ControlBits ==
    OnStack("call_dsWriteRegisters")
    => \A i \in 1..Len(busLog) :
          /\ busLog[i].op = "send"
          /\ (i = dsDayRegister + 1 /\ WriteArgs.dow \in 1..7)
             => BitAnd(busLog[i].val, ds_OSCbit) = 0
          /\ (i = dsHourRegister + 1 /\ WriteArgs.hour \in 0..23)
             => BitAnd(busLog[i].val, ds1224bit) = 0

C20_Witness ==
    /\ At("call_dsWriteRegisters", 1)
    /\ Top.arg = SetTime(19, 2, 3, 7, 21, 27, 0)
    /\ Len(busLog) = 8
    /\ busLog[dsDayRegister + 1] = BusOp("send", 7)
    /\ busLog[dsHourRegister + 1] = BusOp("send", 33)
    /\ chip = ChipLocked

----------------------------------------------------------------------------
(* Which function's statement changes a line in a step.                    *)
LevelChanged(pin) ==
    \/ pinLevel'[pin] # pinLevel[pin]
    \/ pinDir'[pin] # pinDir[pin]

DirectionChanged(pin) == pinDir'[pin] # pinDir[pin]

BitLevel == {"dsWriteBit", "dsReadBit"}

ByteLevel == {"dsSendByte", "dsReadByte", "dsSendCodes"}

(* C17 as stated: outside the pin initialisation of setup, a step changes  *)
(* /CE, /OE, /WE or the direction of DQ0 only if it is a statement of      *)
(* dsWriteBit or dsReadBit.                                                *)
C17_BitLevelOwnsLines ==
    [][(\/ LevelChanged(ds_CEpin) \/ LevelChanged(ds_OEpin)
        \/ LevelChanged(ds_WEpin) \/ DirectionChanged(dsDQ0pin))
       => Top.fn \in BitLevel \cup {"setup"}]_vars

(* C17: outside the pin initialisation of setup, /OE is changed only by    *)
(* statements of dsReadBit and /WE only by statements of dsWriteBit, and   *)
(* /CE and the direction of DQ0 are changed only by statements of          *)
(* dsSendByte, dsReadByte and dsSendCodes, never by dsWriteBit, dsReadBit, *)
(* dsReadRegisters, dsWriteRegisters, dsReadAndPrintTime or loop.          *)
C17_LineOwners ==
    [][/\ LevelChanged(ds_OEpin) => Top.fn \in {"dsReadBit", "setup"}
       /\ LevelChanged(ds_WEpin) => Top.fn \in {"dsWriteBit", "setup"}
       /\ LevelChanged(ds_CEpin) => Top.fn \in ByteLevel \cup {"setup"}
       /\ DirectionChanged(dsDQ0pin) => Top.fn \in ByteLevel \cup {"setup"}
      ]_vars

(* dsSendByte has asserted /CE itself and is about to turn DQ0 round.      *)
C17_Witness ==
    /\ At("dsSendByte", 1)
    /\ opLog = <<PinOp("CE", LOW)>>
    /\ LineLow(ds_CEpin)
    /\ pinDir[dsDQ0pin] = INPUT

----------------------------------------------------------------------------
(* The DS1216 against the driver's cycles.                                 *)
ChipUnlocked == chip.match = 64

(* Bits of the wake code the wake sequence has written when dsWriteBit is  *)
(* at work for it.                                                         *)
WakeBitsWritten ==
    (8 * (FrameOf("dsSendCodes").pc - 6)) + (FrameOf("dsSendByte").pc - 3)

(* Register bits transferred when dsReadBit is at work for                 *)
(* dsReadRegisters, and when dsWriteBit is at work for dsWriteRegisters.   *)
RegisterBitsRead ==
    (8 * ((FrameOf("dsReadRegisters").pc - 1) \div 2))
    + ((FrameOf("dsReadByte").pc - 3) \div 2)

RegisterBitsWritten ==
    (8 * (FrameOf("dsWriteRegisters").pc - 2)) + (FrameOf("dsSendByte").pc - 3)

(* C18: the chip is locked with its matcher at rest when a wake sequence   *)
(* starts; the throwaway read and each wake-code bit meet a locked chip    *)
(* that has matched exactly the wake-code bits written so far; the i-th    *)
(* register bit of a read or write cycle is the i-th transfer of the       *)
(* unlocked chip; and after the 64th the chip is locked again.             *)
C18_ChipInStep ==
    /\ At("dsSendCodes", 0) => chip = ChipLocked
    /\ (OnStack("dsSendCodes") /\ At("dsReadBit", 0)) => chip = ChipLocked
    /\ (OnStack("dsSendCodes") /\ At("dsWriteBit", 1))
       => /\ ~ChipUnlocked
          /\ chip.match = WakeBitsWritten
          /\ chip.match \in 0..63
    /\ At("dsSendCodes", 13) => ChipUnlocked /\ chip.xfer = 0
    /\ (OnStack("dsReadRegisters") /\ At("dsReadBit", 0))
       => /\ ChipUnlocked
          /\ chip.xfer = RegisterBitsRead
          /\ chip.xfer \in 0..63
    /\ (OnStack("dsWriteRegisters") /\ At("dsWriteBit", 1))
       => /\ ChipUnlocked
          /\ chip.xfer = RegisterBitsWritten
          /\ chip.xfer \in 0..63
    /\ At("dsReadAndPrintTime", 2) => chip = ChipLocked
    /\ At("dsWriteRegisters", 9) => chip = ChipLocked

(* The second read cycle starts its wake sequence: the first has printed.  *)
C18_Witness ==
    /\ At("dsSendCodes", 0)
    /\ OnStack("loop")
    /\ chip = ChipLocked
    /\ serialOut # <<>>
    /\ Len(busLog) = 17

----------------------------------------------------------------------------
(* The read of the registers and its report against an unlocked chip that  *)
(* returns bytes of every kind (digits, nibbles above 9, all ones) in      *)
(* every register, with every statement taken in turn: the sketch has one  *)
(* thread and no statement waits.                                          *)
CycleBytes == {0, 7, 9, 10, 15, 85, 153, 154, 170, 240, 255}

CycleImages ==
    {[ScenarioImage EXCEPT ![i] = v] : i \in 1..8, v \in CycleBytes}
    \cup {[i \in 1..8 |-> v] : v \in CycleBytes}
    \cup {[ScenarioImage EXCEPT ![dsDayRegister + 1] = d] : d \in 0..15}

InitCycle ==
    /\ stack = <<Driver("loop", 0), Driver("dsReadAndPrintTime", 0)>>
    /\ pinDir = PinsAfterSetup
    /\ pinLevel = [LatchAfterSetup EXCEPT ![dsDQ0pin] = LOW]
    /\ \E img \in CycleImages : chip = [match |-> 64, xfer |-> 0, image |-> img]
    /\ dsRegisters = NoRegs
    /\ InitRest

SpecCycle == InitCycle /\ [][NextRead]_vars /\ WF_vars(NextRead)

(* A log of pin operations without the levels that were read.              *)
Blind(log) ==
    [i \in 1..Len(log) |->
        IF log[i].op = "READ" THEN PinOp("READ", LOW) ELSE log[i]]

ReadCycleDone == At("dsReadAndPrintTime", 3)

(* The pin operations of dsReadByte are the same whatever is read.         *)
SameLineOperations ==
    /\ IsPrefix(Blind(opLog), RecvTrace([k \in 1..8 |-> LOW]))
    /\ Len(busLog) <= 8
    /\ \A i \in 1..Len(busLog) : busLog[i].op = "recv"
    /\ ReadCycleDone
       => /\ Blind(opLog) = RecvTrace([k \in 1..8 |-> LOW])
          /\ Len(busLog) = 8
          /\ Len(serialOut) = 17
          /\ serialOut[17] = CRLF

(* C16: whatever the 8 bytes the chip returns, the read cycle reaches its  *)
(* end with the 8 registers read and the line printed, and every receive   *)
(* makes the same sequence of pin operations.                              *)
C16_ReadCompletes == []SameLineOperations /\ <>ReadCycleDone

(* A read cycle has completed on an image with nibbles above 9.            *)
C16_Witness ==
    /\ ReadCycleDone
    /\ dsRegisters = [ScenarioImage EXCEPT ![dsHourRegister + 1] = 255]
    /\ Len(serialOut) = 17

====
